---- MODULE Spec2Model ----
(***************************************************************************)
(* Model of VideoConverter.hlsConvert (src/main.ts): validation of the     *)
(* request, resolution of the quality subset, preparation of the output    *)
(* directory, the fan-out of one ffmpeg job per resolved quality, the      *)
(* Promise.all join, source clean-up and the master playlist.              *)
(*                                                                         *)
(* One behaviour is one call of hlsConvert on one VideoConverter.  Node    *)
(* runs every handler to completion and drains the microtask queue before  *)
(* the next event is dispatched, so the synchronous prefix of hlsConvert   *)
(* is one action, every ffmpeg event handler is one action, and the        *)
(* continuation after `await Promise.all` is one action that no ffmpeg     *)
(* event can overtake once the join has settled.                           *)
(***************************************************************************)
EXTENDS Integers, Sequences, FiniteSets, TLC

(***************************************************************************)
(* Bound of the model: the number of 'progress' events the encoders emit   *)
(* in one run, over all jobs.                                              *)
(***************************************************************************)
MaxProgress == 1

(***************************************************************************)
(* Quality objects.  bitrate is kept as its sequence of characters, the    *)
(* form parseInt reads; the other fields are opaque strings.  A missing    *)
(* field is the empty string (the empty sequence for bitrate).             *)
(***************************************************************************)
Q(res, br, mr, bs, f, n, s) ==
    [resolution |-> res, bitrate |-> br, maxrate |-> mr, bufsize |-> bs,
     file |-> f, name |-> n, segments |-> s]

DefaultQuality ==
    << Q("120x68",    <<"1","0","0","k">>,         "107k",   "150k",   "120p.m3u8",      "120",  "120p_%03d.ts"),
       Q("160x90",    <<"1","5","0","k">>,         "160k",   "200k",   "160p.m3u8",      "160",  "160p_%03d.ts"),
       Q("240x135",   <<"2","0","0","k">>,         "214k",   "300k",   "240p.m3u8",      "240",  "240p_%03d.ts"),
       Q("320x180",   <<"3","5","0","k">>,         "375k",   "500k",   "180p.m3u8",      "180",  "180p_%03d.ts"),
       Q("426x240",   <<"4","0","0","k">>,         "428k",   "600k",   "240p_wide.m3u8", "240w", "240pw_%03d.ts"),
       Q("480x270",   <<"5","0","0","k">>,         "535k",   "750k",   "270p.m3u8",      "270",  "270p_%03d.ts"),
       Q("640x360",   <<"8","0","0","k">>,         "856k",   "1200k",  "360p.m3u8",      "360",  "360p_%03d.ts"),
       Q("854x480",   <<"1","4","0","0","k">>,     "1498k",  "2100k",  "480p.m3u8",      "480",  "480p_%03d.ts"),
       Q("960x540",   <<"2","0","0","0","k">>,     "2140k",  "3000k",  "540p.m3u8",      "540",  "540p_%03d.ts"),
       Q("1280x720",  <<"2","8","0","0","k">>,     "2996k",  "4200k",  "720p.m3u8",      "720",  "720p_%03d.ts"),
       Q("1920x1080", <<"5","0","0","0","k">>,     "5350k",  "7500k",  "1080p.m3u8",     "1080", "1080p_%03d.ts"),
       Q("2560x1440", <<"8","0","0","0","k">>,     "8560k",  "12000k", "1440p.m3u8",     "1440", "1440p_%03d.ts"),
       Q("3840x2160", <<"1","4","0","0","0","k">>, "14980k", "21000k", "2160p.m3u8",     "2160", "2160p_%03d.ts") >>

(* The names used when the caller passes no resolutionArray. *)
DefaultResolution == << "120", "240", "360", "480", "720" >>

(***************************************************************************)
(* Elements of a caller's resolutionArray.  The parameter is typed         *)
(* string[], but the code checks typeof at run time, so an element carries *)
(* whether it is a string.                                                 *)
(***************************************************************************)
Str(s) == [isString |-> TRUE,  v |-> s]
Num(s) == [isString |-> FALSE, v |-> s]

(* res === name, for an element res of the resolution array. *)
StrictEq(res, name) == res.isString /\ res.v = name

(* quality.map(q => q.name) *)
Names(qs) == [i \in DOMAIN qs |-> qs[i].name]


(***************************************************************************)
(* Inputs of one call.  An absent string argument is "", an absent array   *)
(* is <<>>: the code tests both by truthiness and length, so it cannot     *)
(* tell absent from empty.                                                 *)
(***************************************************************************)
InputFolder == "video"
OutputPath == "output"
Uuid == "uuid"

InputFileNames == { "", "sample.mp4", "missing.mp4" }

ResolutionArrays ==
    { <<>>,
      << Str("360") >>,
      << Str("720"), Str("360") >>,
      << Str("360"), Str("360") >>,
      << Str("999") >>,
      << Str("360"), Str("999") >>,
      << Num("360") >> }

VideoIds == { "", "vid1" }

Custom360 == Q("640x360", <<"9","0","0","k">>, "960k", "1300k", "c360.m3u8", "360", "c360_%03d.ts")
Custom720 == Q("1280x720", <<"3","0","0","0","k">>, "3100k", "4300k", "c720.m3u8", "720", "c720_%03d.ts")
NoBufsize720 == [Custom720 EXCEPT !.bufsize = ""]

QualityArrays ==
    { <<>>,
      << Custom360 >>,
      << Custom720, Custom360 >>,
      << Custom360, NoBufsize720 >>,
      << Custom360, Custom360 >> }

(* What the encoder hands to on('progress'): percent is missing, or a *)
(* number, given here in tenths of a percent.                         *)
ProgressReports ==
    { [isNumber |-> FALSE, tenths |-> 0],
      [isNumber |-> TRUE,  tenths |-> 405],
      [isNumber |-> TRUE,  tenths |-> 1012] }

Join(dir, name) == dir \o "/" \o name

(* A master playlist left in the run directory by an earlier run. *)
StaleMaster == << "#EXTM3U", "stale" >>

VARIABLES
    inputFileName,      \* argument: name of the source file
    progressCallback,   \* argument: TRUE iff a callback function was passed
    resolutionArray,    \* argument: requested quality names
    video_id,           \* argument: run identifier, "" when absent
    qualityArray,       \* argument: custom catalog, <<>> when absent
    inputVideoCleanUp,  \* constructor flag (truthiness)
    inputFiles,         \* file system: names of the files in inputFolder
    dirs,               \* file system: existing directories
    outFiles,           \* file system: encoder outputs in the run directory
    master,             \* file system: lines of master.m3u8 in the run directory
    callState,          \* "start", "awaiting", "resolved", "rejected"
    error,              \* the value hlsConvert rejected with
    quality,            \* local: the catalog in use
    finalQuality,       \* local: the resolved qualities
    uniqueOutputPath,   \* local: the run directory
    spawned,            \* names of the qualities ffmpeg was run for, in order
    jobs,               \* per launched quality: "running", "ended", "failed"
    all,                \* the Promise.all promise: state and rejection reason
    lastPercent,        \* per job: the closure's lastPercent
    events,             \* per quality: percents delivered to progressCallback
    nProgress,          \* number of 'progress' events emitted so far
    unlinkCalls,        \* number of fs.unlinkSync calls on the source
    mkdirCalls,         \* number of fs.mkdirSync calls
    masterWrites,       \* number of fs.writeFileSync calls on master.m3u8
    droppedRejections   \* rejected promises built by the field check and dropped

vars ==
    << inputFileName, progressCallback, resolutionArray, video_id, qualityArray,
       inputVideoCleanUp, inputFiles, dirs, outFiles, master, callState, error,
       quality, finalQuality, uniqueOutputPath, spawned, jobs, all, lastPercent,
       events, nProgress, unlinkCalls, mkdirCalls, masterWrites, droppedRejections >>

args == << inputFileName, progressCallback, resolutionArray, video_id, qualityArray, inputVideoCleanUp >>

Err(type, name, valid) == [type |-> type, name |-> name, valid |-> valid]
NoError == Err("none", "", <<>>)

(***************************************************************************)
(* The synchronous prefix of hlsConvert, as pure steps.                    *)
(***************************************************************************)

(* Lines 84-105: the built-in table is used when no qualityArray is given; *)
(* a non-empty qualityArray is never copied into `quality`.                *)
SelectQuality(qa) == IF Len(qa) = 0 THEN DefaultQuality ELSE <<>>

(* Line 109: the field test of the forEach callback. *)
MissingField(q) ==
    \/ q.resolution = ""
    \/ q.bitrate = <<>>
    \/ q.maxrate = ""
    \/ q.bufsize = ""
    \/ q.file = ""
    \/ q.name = ""
    \/ q.segments = ""

(* Lines 108-112: the callback returns a rejected promise that forEach *)
(* discards; the loop goes on and the function does not return.        *)
FieldCheckRejections(qs) == Cardinality({ i \in DOMAIN qs : MissingField(qs[i]) })

(* As Resolution, but defaulting to the first five names of the built-in table. *)
ResolutionFirstFive(ra) ==
    IF Len(ra) > 0 THEN ra ELSE [i \in 1..5 |-> Str(DefaultQuality[i].name)]

(* Lines 116-119. *)
Resolution(ra) ==
    IF Len(ra) > 0 THEN ra ELSE [i \in DOMAIN DefaultResolution |-> Str(DefaultResolution[i])]

(* Lines 130-137: the first element, in request order, that is no string *)
(* or matches no quality name; 0 when there is none.                     *)
BadNameAt(qs, res) ==
    LET bad == { i \in DOMAIN res :
                    \/ ~res[i].isString
                    \/ ~\E j \in DOMAIN qs : StrictEq(res[i], qs[j].name) }
    IN IF bad = {} THEN 0 ELSE CHOOSE i \in bad : \A k \in bad : i <= k

(* Line 142: quality.filter(q => resolution.includes(q.name)). *)
Includes(res, name) == \E i \in DOMAIN res : StrictEq(res[i], name)
FilterQuality(qs, res) ==
    LET Keep(q) == Includes(res, q.name) IN SelectSeq(qs, Keep)

(* Lines 121-154: the first check that fails, NoError when all pass. *)
ValidationError(qs, res, fileName, files) ==
    IF Len(res) = 0
        THEN Err("InvalidResolutionArray", "", <<>>)
    ELSE IF \E i \in DOMAIN res : ~res[i].isString
        THEN Err("NonStringResolution", "", <<>>)
    ELSE IF BadNameAt(qs, res) # 0
        THEN Err("InvalidResolutionName", res[BadNameAt(qs, res)].v, Names(qs))
    ELSE IF Len(FilterQuality(qs, res)) = 0
        THEN Err("NoValidResolutions", "", <<>>)
    ELSE IF fileName = ""
        THEN Err("InputFileNameRequired", "", <<>>)
    ELSE IF fileName \notin files
        THEN Err("InputFileNotFound", Join(InputFolder, fileName), <<>>)
    ELSE NoError

(* Line 142 is reached only when the name loop did not throw. *)
ResolvedQuality(qs, res) ==
    IF Len(res) # 0 /\ (\A i \in DOMAIN res : res[i].isString) /\ BadNameAt(qs, res) = 0
        THEN FilterQuality(qs, res)
        ELSE <<>>

(* Line 160. *)
RunDir(id) == Join(OutputPath, IF id # "" THEN id ELSE Uuid)

(* As DirsToMake, but without the existsSync tests. *)
DirsToMakeUnguarded(existing, id) == { OutputPath, RunDir(id) }

(* Lines 155-163: the directories mkdirSync is called for. *)
DirsToMake(existing, id) == { d \in { OutputPath, RunDir(id) } : d \notin existing }

(* Lines 180 and 186: the files one encoder job produces. *)
JobFiles(dir, q) == { Join(dir, q.segments), Join(dir, q.file) }

(***************************************************************************)
(* The master playlist, lines 229-234.                                     *)
(***************************************************************************)
Digits == { "0", "1", "2", "3", "4", "5", "6", "7", "8", "9" }
DigitVal(c) ==
    CASE c = "0" -> 0 [] c = "1" -> 1 [] c = "2" -> 2 [] c = "3" -> 3 [] c = "4" -> 4
      [] c = "5" -> 5 [] c = "6" -> 6 [] c = "7" -> 7 [] c = "8" -> 8 [] c = "9" -> 9

(* The longest prefix of digits, read in base ten, continuing from acc. *)
RECURSIVE DigitsValue(_, _)
DigitsValue(cs, acc) ==
    IF cs = <<>> \/ Head(cs) \notin Digits
        THEN acc
        ELSE DigitsValue(Tail(cs), 10 * acc + DigitVal(Head(cs)))

(* parseInt(q.bitrate): NaN when the text does not start with a digit *)
(* (after an optional sign), else the leading integer.                *)
ParseInt(cs) ==
    LET neg  == cs # <<>> /\ Head(cs) = "-"
        body == IF cs # <<>> /\ Head(cs) \in { "-", "+" } THEN Tail(cs) ELSE cs
    IN IF body = <<>> \/ Head(body) \notin Digits
          THEN [nan |-> TRUE, val |-> 0]
          ELSE [nan |-> FALSE, val |-> IF neg THEN 0 - DigitsValue(body, 0) ELSE DigitsValue(body, 0)]

(* As Bandwidth, but without the scaling by 1000. *)
BandwidthUnscaled(q) ==
    IF ParseInt(q.bitrate).nan THEN "NaN" ELSE ToString(ParseInt(q.bitrate).val)

(* `${parseInt(q.bitrate) * 1000}` *)
Bandwidth(q) ==
    IF ParseInt(q.bitrate).nan THEN "NaN" ELSE ToString(ParseInt(q.bitrate).val * 1000)

StreamInf(q) == "#EXT-X-STREAM-INF:BANDWIDTH=" \o Bandwidth(q) \o ",RESOLUTION=" \o q.resolution

RECURSIVE MasterPlaylistContent(_)
MasterPlaylistContent(qs) ==
    IF qs = <<>> THEN <<>>
    ELSE << StreamInf(Head(qs)), Head(qs).file >> \o MasterPlaylistContent(Tail(qs))

(* The text written, as its lines: the header, then the joined entries. *)
MasterPlaylist(qs) == << "#EXTM3U" >> \o MasterPlaylistContent(qs)

(***************************************************************************)
(* Promise.all over the job promises.                                      *)
(***************************************************************************)
Pending == [state |-> "pending", reason |-> NoError]

(* As AllOnReject, but the latest rejection replaces the reason. *)
AllOnRejectLast(a, r) == [state |-> "rejected", reason |-> r]

(* As AllOnResolve, but fulfilling on the first job promise that resolves. *)
AllOnResolveAny(a, js) ==
    IF a.state = "pending" THEN [state |-> "fulfilled", reason |-> NoError] ELSE a

(* As AllOnResolve, but never fulfilling the join. *)
AllOnResolveNever(a, js) == a

(* A job promise rejects with reason r: the first rejection settles the *)
(* join, later ones are ignored.                                        *)
AllOnReject(a, r) == IF a.state = "pending" THEN [state |-> "rejected", reason |-> r] ELSE a

(* A job promise resolves, js being the job states after it: the join *)
(* fulfils once every job promise has resolved.                       *)
AllOnResolve(a, js) ==
    IF a.state = "pending" /\ \A i \in DOMAIN js : js[i] = "ended"
        THEN [state |-> "fulfilled", reason |-> NoError]
        ELSE a

(* The continuation of `await Promise.all` is queued and not yet run. *)
ResumePending == callState = "awaiting" /\ all.state # "pending"

(* Math.floor of a percent given in tenths. *)
Floor(tenths) == tenths \div 10

(***************************************************************************)
(* Initial states: the arguments of the call and the file system it meets. *)
(* sample.mp4 exists, missing.mp4 does not.  The output base may exist,    *)
(* and with it the run directory of an earlier run under the id vid1, met  *)
(* by a call that repeats that id.                                         *)
(***************************************************************************)
FileSystems ==
    { [dirs |-> {}, master |-> <<>>],
      [dirs |-> { OutputPath }, master |-> <<>>],
      [dirs |-> { OutputPath, Join(OutputPath, "vid1") }, master |-> StaleMaster] }

Init ==
    /\ inputFileName \in InputFileNames
    /\ progressCallback \in BOOLEAN
    /\ resolutionArray \in ResolutionArrays
    /\ video_id \in VideoIds
    /\ qualityArray \in QualityArrays
    /\ inputVideoCleanUp \in BOOLEAN
    /\ inputFiles = { "sample.mp4" }
    /\ \E f \in FileSystems :
          /\ f.master # <<>> => video_id = "vid1"
          /\ dirs = f.dirs
          /\ master = f.master
    /\ outFiles = {}
    /\ callState = "start"
    /\ error = NoError
    /\ quality = <<>>
    /\ finalQuality = <<>>
    /\ uniqueOutputPath = ""
    /\ spawned = <<>>
    /\ jobs = <<>>
    /\ all = [state |-> "none", reason |-> NoError]
    /\ lastPercent = <<>>
    /\ events = <<>>
    /\ nProgress = 0
    /\ unlinkCalls = 0
    /\ mkdirCalls = 0
    /\ masterWrites = 0
    /\ droppedRejections = 0

(* As SyncPrefix, but starting a job for every quality of the catalog. *)
SyncPrefixLaunchAll(qa, ra, fileName, files, existing, id) ==
    LET qs  == SelectQuality(qa)
        res == Resolution(ra)
        e   == ValidationError(qs, res, fileName, files)
        fq  == ResolvedQuality(qs, res)
    IN [ quality  |-> qs,
         dropped  |-> FieldCheckRejections(qs),
         final    |-> fq,
         error    |-> e,
         made     |-> IF e = NoError THEN DirsToMake(existing, id) ELSE {},
         launched |-> IF e = NoError THEN qs ELSE <<>> ]

(* As SyncPrefix, but creating the directories before the source file is *)
(* looked for.                                                           *)
SyncPrefixMkdirFirst(qa, ra, fileName, files, existing, id) ==
    LET qs  == SelectQuality(qa)
        res == Resolution(ra)
        e   == ValidationError(qs, res, fileName, files)
        fq  == ResolvedQuality(qs, res)
    IN [ quality  |-> qs,
         dropped  |-> FieldCheckRejections(qs),
         final    |-> fq,
         error    |-> e,
         made     |-> IF e.type \in { "none", "InputFileNotFound" }
                         THEN DirsToMake(existing, id) ELSE {},
         launched |-> IF e = NoError THEN fq ELSE <<>> ]

(***************************************************************************)
(* Lines 80-163 as one result: the locals, the rejection if a check fails, *)
(* the directories created and the qualities a job is started for.  Every  *)
(* check (lines 121-154) comes before the first mkdirSync (line 156).      *)
(***************************************************************************)
SyncPrefix(qa, ra, fileName, files, existing, id) ==
    LET qs  == SelectQuality(qa)
        res == Resolution(ra)
        e   == ValidationError(qs, res, fileName, files)
        fq  == ResolvedQuality(qs, res)
    IN [ quality  |-> qs,
         dropped  |-> FieldCheckRejections(qs),
         final    |-> fq,
         error    |-> e,
         made     |-> IF e = NoError THEN DirsToMake(existing, id) ELSE {},
         launched |-> IF e = NoError THEN fq ELSE <<>> ]

(***************************************************************************)
(* Lines 80-226 up to the await: validation, the output directories and    *)
(* the start of one ffmpeg job per resolved quality.  A failed check       *)
(* rejects before anything else is done.                                   *)
(***************************************************************************)
HlsConvert ==
    /\ callState = "start"
    /\ LET p == SyncPrefix(qualityArray, resolutionArray, inputFileName, inputFiles,
                           dirs, video_id)
       IN /\ quality' = p.quality
          /\ droppedRejections' = p.dropped
          /\ finalQuality' = p.final
          /\ error' = p.error
          /\ dirs' = dirs \cup p.made
          /\ mkdirCalls' = Cardinality(p.made)
          /\ spawned' = Names(p.launched)
          /\ jobs' = [i \in DOMAIN p.launched |-> "running"]
          /\ lastPercent' = [i \in DOMAIN p.launched |-> 0]
          /\ events' = [i \in DOMAIN p.launched |-> <<>>]
          /\ IF p.error # NoError
                THEN /\ callState' = "rejected"
                     /\ UNCHANGED << uniqueOutputPath, all >>
                ELSE /\ callState' = "awaiting"
                     /\ uniqueOutputPath' = RunDir(video_id)
                     /\ all' = Pending
    /\ UNCHANGED << args, inputFiles, outFiles, master, nProgress, unlinkCalls, masterWrites >>

(***************************************************************************)
(* on('progress'), lines 190-197, for job i and encoder report r.          *)
(***************************************************************************)
Progress(i, r) ==
    /\ callState # "start"
    /\ ~ResumePending
    /\ i \in DOMAIN jobs
    /\ jobs[i] = "running"
    /\ nProgress < MaxProgress
    /\ nProgress' = nProgress + 1
    /\ IF r.isNumber
          THEN /\ lastPercent' = [lastPercent EXCEPT ![i] = Floor(r.tenths)]
               /\ events' = IF progressCallback
                               THEN [events EXCEPT ![i] = Append(@, Floor(r.tenths))]
                               ELSE events
          ELSE UNCHANGED << lastPercent, events >>
    /\ UNCHANGED << args, inputFiles, dirs, outFiles, master, callState, error, quality,
                    finalQuality, uniqueOutputPath, spawned, jobs, all, unlinkCalls,
                    mkdirCalls, masterWrites, droppedRejections >>

(* As End, but without the final callback of 100. *)
EndSkipsFinal(i) ==
    /\ callState # "start"
    /\ ~ResumePending
    /\ i \in DOMAIN jobs
    /\ jobs[i] = "running"
    /\ outFiles' = outFiles \cup JobFiles(uniqueOutputPath, finalQuality[i])
    /\ IF inputVideoCleanUp
          THEN /\ unlinkCalls' = unlinkCalls + 1
               /\ inputFiles' = inputFiles \ { inputFileName }
          ELSE UNCHANGED << unlinkCalls, inputFiles >>
    /\ jobs' = [jobs EXCEPT ![i] = "ended"]
    /\ all' = AllOnResolve(all, jobs')
    /\ UNCHANGED << args, dirs, master, callState, error, quality, finalQuality,
                    uniqueOutputPath, spawned, lastPercent, events, nProgress, mkdirCalls,
                    masterWrites, droppedRejections >>

(* As End, but with no try/catch around unlinkSync: a delete of a source *)
(* that is gone fails the job.                                           *)
EndUnlinkThrows(i) ==
    /\ callState # "start"
    /\ ~ResumePending
    /\ i \in DOMAIN jobs
    /\ jobs[i] = "running"
    /\ outFiles' = outFiles \cup JobFiles(uniqueOutputPath, finalQuality[i])
    /\ events' = IF progressCallback THEN [events EXCEPT ![i] = Append(@, 100)] ELSE events
    /\ IF inputVideoCleanUp
          THEN /\ unlinkCalls' = unlinkCalls + 1
               /\ inputFiles' = inputFiles \ { inputFileName }
          ELSE UNCHANGED << unlinkCalls, inputFiles >>
    /\ IF inputVideoCleanUp /\ inputFileName \notin inputFiles
          THEN /\ jobs' = [jobs EXCEPT ![i] = "failed"]
               /\ all' = AllOnReject(all, Err("UnlinkFailure", finalQuality[i].name, <<>>))
          ELSE /\ jobs' = [jobs EXCEPT ![i] = "ended"]
               /\ all' = AllOnResolve(all, jobs')
    /\ UNCHANGED << args, dirs, master, callState, error, quality, finalQuality,
                    uniqueOutputPath, spawned, lastPercent, nProgress, mkdirCalls,
                    masterWrites, droppedRejections >>

(***************************************************************************)
(* on('end'), lines 203-218, for job i.  The encoder has written the       *)
(* job's playlist and segments by the time it emits 'end'; they are        *)
(* recorded here.  unlinkSync throws when the source is gone, and the      *)
(* handler catches it.                                                     *)
(***************************************************************************)
End(i) ==
    /\ callState # "start"
    /\ ~ResumePending
    /\ i \in DOMAIN jobs
    /\ jobs[i] = "running"
    /\ outFiles' = outFiles \cup JobFiles(uniqueOutputPath, finalQuality[i])
    /\ events' = IF progressCallback THEN [events EXCEPT ![i] = Append(@, 100)] ELSE events
    /\ IF inputVideoCleanUp
          THEN /\ unlinkCalls' = unlinkCalls + 1
               /\ inputFiles' = inputFiles \ { inputFileName }
          ELSE UNCHANGED << unlinkCalls, inputFiles >>
    /\ jobs' = [jobs EXCEPT ![i] = "ended"]
    /\ all' = AllOnResolve(all, jobs')
    /\ UNCHANGED << args, dirs, master, callState, error, quality, finalQuality,
                    uniqueOutputPath, spawned, lastPercent, nProgress, mkdirCalls,
                    masterWrites, droppedRejections >>

(***************************************************************************)
(* on('error'), lines 219-222, for job i.                                  *)
(***************************************************************************)
Error(i) ==
    /\ callState # "start"
    /\ ~ResumePending
    /\ i \in DOMAIN jobs
    /\ jobs[i] = "running"
    /\ jobs' = [jobs EXCEPT ![i] = "failed"]
    /\ all' = AllOnReject(all, Err("EncodeFailure", finalQuality[i].name, <<>>))
    /\ UNCHANGED << args, inputFiles, dirs, outFiles, master, callState, error, quality,
                    finalQuality, uniqueOutputPath, spawned, lastPercent, events, nProgress,
                    unlinkCalls, mkdirCalls, masterWrites, droppedRejections >>

(***************************************************************************)
(* The continuation of the await, lines 228-240: the master playlist is    *)
(* written when the join fulfilled; a rejection is rethrown by the catch.  *)
(***************************************************************************)
Resume ==
    /\ ResumePending
    /\ IF all.state = "fulfilled"
          THEN /\ master' = MasterPlaylist(finalQuality)
               /\ masterWrites' = masterWrites + 1
               /\ callState' = "resolved"
               /\ UNCHANGED error
          ELSE /\ callState' = "rejected"
               /\ error' = all.reason
               /\ UNCHANGED << master, masterWrites >>
    /\ UNCHANGED << args, inputFiles, dirs, outFiles, quality, finalQuality,
                    uniqueOutputPath, spawned, jobs, all, lastPercent, events, nProgress,
                    unlinkCalls, mkdirCalls, droppedRejections >>

Next ==
    \/ HlsConvert
    \/ \E i \in DOMAIN jobs : \E r \in ProgressReports : Progress(i, r)
    \/ \E i \in DOMAIN jobs : End(i)
    \/ \E i \in DOMAIN jobs : Error(i)
    \/ Resume

Spec == Init /\ [][Next]_vars

(***************************************************************************)
(* Properties.                                                             *)
(***************************************************************************)
AnyFailed == \E i \in DOMAIN jobs : jobs[i] = "failed"
AllEnded == jobs # <<>> /\ \A i \in DOMAIN jobs : jobs[i] = "ended"
Settled == callState \in { "resolved", "rejected" }

(* The catalog of the call as the caller sees it: the custom catalog when *)
(* one is passed, else the built-in table.                                *)
CallerCatalog == IF Len(qualityArray) > 0 THEN qualityArray ELSE DefaultQuality

ValidCatalog(c) ==
    /\ \A i \in DOMAIN c : ~MissingField(c[i])
    /\ \A i, j \in DOMAIN c : c[i].name = c[j].name => i = j

RequestedNames == { resolutionArray[i].v : i \in DOMAIN resolutionArray }
AllStrings == \A i \in DOMAIN resolutionArray : resolutionArray[i].isString
CatalogNames(c) == { c[i].name : i \in DOMAIN c }

(* The profiles of catalog c whose name is requested, in catalog order. *)
Requested(c) == LET Wanted(q) == q.name \in RequestedNames IN SelectSeq(c, Wanted)

(* The rejections raised by the checks that precede the first job. *)
ValidationErrors ==
    { "InvalidResolutionArray", "NonStringResolution", "InvalidResolutionName",
      "NoValidResolutions", "InputFileNameRequired", "InputFileNotFound" }

(* C1: hlsConvert does not settle while a job it launched is still running: *)
(* once it has resolved or rejected, every job has ended or failed.         *)
FanInBarrier ==
    Settled => \A i \in DOMAIN jobs : jobs[i] \in { "ended", "failed" }

(* C2: master.m3u8 is written, and the call resolves, exactly when every     *)
(* launched job has ended: the write comes after the last 'end' and with the *)
(* resolution; once a job has failed the playlist is never written and the   *)
(* call never resolves.                                                      *)
MasterIffAllJobsEnded ==
    /\ masterWrites > 0 => AllEnded /\ callState = "resolved"
    /\ callState = "resolved" =>
          AllEnded /\ masterWrites = 1 /\ master = MasterPlaylist(finalQuality)
    /\ AnyFailed => masterWrites = 0 /\ callState # "resolved"
    /\ AllEnded /\ callState # "awaiting" => callState = "resolved"

MasterWrittenAfterTwoJobs ==
    callState = "resolved" /\ Len(finalQuality) = 2 /\ masterWrites = 1

(* C3: when a job reports an encoder error the call rejects with the error *)
(* of the first job that failed, and the files of the jobs that ended stay *)
(* in the run directory: nothing is ever removed from it.                  *)
FirstErrorRejectsNoRollback ==
    /\ [](AnyFailed /\ callState # "awaiting" =>
              /\ callState = "rejected"
              /\ error.type = "EncodeFailure"
              /\ error = all.reason)
    /\ [](\A i \in DOMAIN jobs :
              jobs[i] = "ended" => JobFiles(uniqueOutputPath, finalQuality[i]) \subseteq outFiles)
    /\ [][\A i \in DOMAIN jobs :
              ~AnyFailed /\ jobs'[i] = "failed" =>
                 all'.reason = Err("EncodeFailure", finalQuality[i].name, <<>>)]_vars
    /\ [][all.state = "rejected" => all' = all]_vars
    /\ [][outFiles \subseteq outFiles']_vars

RejectedAfterSiblingEnded ==
    /\ callState = "rejected"
    /\ \E i, j \in DOMAIN jobs :
          /\ jobs[i] = "ended"
          /\ jobs[j] = "failed"
          /\ error = Err("EncodeFailure", finalQuality[j].name, <<>>)
          /\ JobFiles(uniqueOutputPath, finalQuality[i]) \subseteq outFiles

(* C4: with clean-up enabled the delete of the source file is issued at most *)
(* once in a call, however many jobs end.                                    *)
SourceDeletedAtMostOnce == unlinkCalls <= 1

(* C5: a call that fails a validation check has launched no job, created no *)
(* directory and written or deleted no file; a missing source file is       *)
(* reported as such, with no directory created.                             *)
ValidationFailureHasNoSideEffects ==
    /\ callState = "rejected" /\ error.type \in ValidationErrors =>
          /\ spawned = <<>>
          /\ jobs = <<>>
          /\ mkdirCalls = 0
          /\ \E f \in FileSystems : dirs = f.dirs /\ master = f.master
          /\ outFiles = {}
          /\ masterWrites = 0
          /\ unlinkCalls = 0
          /\ inputFiles = { "sample.mp4" }
    /\ callState # "start" /\ inputFileName = "missing.mp4" /\ finalQuality # <<>> =>
          /\ callState = "rejected"
          /\ error.type = "InputFileNotFound"
          /\ mkdirCalls = 0
          /\ spawned = <<>>

MissingSourceMeetsNoOutputDir ==
    /\ callState = "rejected"
    /\ error.type = "InputFileNotFound"
    /\ dirs = {}

(* C6: a non-empty custom catalog replaces the built-in table: in a call on *)
(* an existing source file where every requested name is a name of the     *)
(* custom catalog, resolution succeeds and the jobs launched are the       *)
(* matching custom profiles, with the custom parameters.                   *)
CustomCatalogReplacesDefault ==
    /\ callState # "start"
    /\ inputFileName = "sample.mp4"
    /\ Len(qualityArray) > 0
    /\ ValidCatalog(qualityArray)
    /\ Len(resolutionArray) > 0
    /\ AllStrings
    /\ RequestedNames \subseteq CatalogNames(qualityArray)
    => /\ callState # "rejected" \/ error.type = "EncodeFailure"
       /\ finalQuality = Requested(qualityArray)
       /\ spawned = Names(Requested(qualityArray))

(* C7: for a valid catalog and a non-empty request whose every name is in *)
(* the catalog, the resolved qualities are the requested profiles, in     *)
(* catalog order, each once.                                              *)
ResolveKeepsCatalogOrder ==
    /\ callState # "start"
    /\ inputFileName = "sample.mp4"
    /\ ValidCatalog(CallerCatalog)
    /\ Len(resolutionArray) > 0
    /\ AllStrings
    /\ RequestedNames \subseteq CatalogNames(CallerCatalog)
    => /\ finalQuality = Requested(CallerCatalog)
       /\ error.type \notin { "InvalidResolutionName", "NoValidResolutions" }

(* C8: a request with a name that is no catalog name is rejected with an *)
(* error that lists every name of the catalog, and no job is launched.   *)
UnknownNameListsCatalogNames ==
    /\ callState # "start"
    /\ inputFileName = "sample.mp4"
    /\ ValidCatalog(CallerCatalog)
    /\ AllStrings
    /\ ~(RequestedNames \subseteq CatalogNames(CallerCatalog))
    => /\ callState = "rejected"
       /\ error.type = "InvalidResolutionName"
       /\ error.valid = Names(CallerCatalog)
       /\ spawned = <<>>

EarliestViolationInSpecOrder ==
    IF ~ValidCatalog(CallerCatalog) THEN "InvalidProfile"
    ELSE IF inputFileName = "" THEN "InputFileNameRequired"
    ELSE ValidationError(CallerCatalog, Resolution(resolutionArray), inputFileName,
                         { "sample.mp4" }).type

FirstViolationInSpecOrderWins ==
    /\ callState # "start"
    /\ Len(qualityArray) = 0
    /\ AllStrings
    /\ EarliestViolationInSpecOrder # "none"
    => callState = "rejected" /\ error.type = EarliestViolationInSpecOrder

(* C11: a catalog with a profile that lacks a required field, or with two *)
(* profiles of one name, makes the call fail with InvalidProfile before   *)
(* qualities are resolved or a job is launched.                           *)
InvalidCatalogRejected ==
    /\ callState # "start"
    /\ inputFileName = "sample.mp4"
    /\ ~ValidCatalog(CallerCatalog)
    => /\ callState = "rejected"
       /\ error.type = "InvalidProfile"
       /\ spawned = <<>>

(* C12: the percents delivered to the progress callback for one quality *)
(* are integers in 0..100 and never decrease.                           *)
ProgressMonotoneInRange ==
    \A i \in DOMAIN events :
       \A k \in DOMAIN events[i] :
          /\ events[i][k] \in 0..100
          /\ k > 1 => events[i][k - 1] <= events[i][k]

(* C13: with a progress callback, the last percent delivered for a job that *)
(* ended is 100, whatever the encoder reported before; it is delivered in   *)
(* the handler that marks the job as ended, so before the call resolves.    *)
FinalHundredOnEnd ==
    progressCallback =>
       \A i \in DOMAIN jobs :
          jobs[i] = "ended" => events[i] # <<>> /\ events[i][Len(events[i])] = 100

EndedAfterLowerReport ==
    /\ progressCallback
    /\ \E i \in DOMAIN jobs : jobs[i] = "ended" /\ events[i] = << 40, 100 >>

(* C14: the master playlist written on success is the header line followed *)
(* by one stream-info line and one playlist name per resolved quality, in   *)
(* resolved order; BANDWIDTH is the kilobit bitrate times 1000.             *)
ExpectedStreamInf(name) ==
    CASE name = "120" -> "#EXT-X-STREAM-INF:BANDWIDTH=100000,RESOLUTION=120x68"
      [] name = "240" -> "#EXT-X-STREAM-INF:BANDWIDTH=200000,RESOLUTION=240x135"
      [] name = "360" -> "#EXT-X-STREAM-INF:BANDWIDTH=800000,RESOLUTION=640x360"
      [] name = "480" -> "#EXT-X-STREAM-INF:BANDWIDTH=1400000,RESOLUTION=854x480"
      [] name = "720" -> "#EXT-X-STREAM-INF:BANDWIDTH=2800000,RESOLUTION=1280x720"

MasterListsResolvedQualities ==
    /\ callState = "resolved" =>
          /\ Len(master) = 1 + 2 * Len(finalQuality)
          /\ master[1] = "#EXTM3U"
          /\ \A i \in DOMAIN finalQuality :
                /\ master[2 * i] = ExpectedStreamInf(finalQuality[i].name)
                /\ master[2 * i + 1] = finalQuality[i].file
          /\ Names(finalQuality) = spawned
    /\ callState = "resolved" /\ resolutionArray = << Str("720"), Str("360") >> =>
          master = << "#EXTM3U",
                      "#EXT-X-STREAM-INF:BANDWIDTH=800000,RESOLUTION=640x360", "360p.m3u8",
                      "#EXT-X-STREAM-INF:BANDWIDTH=2800000,RESOLUTION=1280x720", "720p.m3u8" >>

MasterWrittenFor720And360 ==
    /\ callState = "resolved"
    /\ resolutionArray = << Str("720"), Str("360") >>
    /\ Len(master) = 5

(* C15: a call that passes validation runs the encoder once for each       *)
(* resolved quality and for no other, all of them before any terminal      *)
(* event is handled; no job is started later and a failed job stays failed. *)
EncoderRunOncePerQuality ==
    /\ [](callState # "start" /\ error.type \notin ValidationErrors =>
              /\ spawned = Names(finalQuality)
              /\ \A i, j \in DOMAIN spawned : spawned[i] = spawned[j] => i = j
              /\ DOMAIN jobs = DOMAIN finalQuality)
    /\ [](error.type \in ValidationErrors => spawned = <<>>)
    /\ [][callState # "start" => spawned' = spawned /\ DOMAIN jobs' = DOMAIN jobs]_vars
    /\ [][\A i \in DOMAIN jobs : jobs[i] = "failed" => jobs'[i] = "failed"]_vars

FailedJobBesideRunningJob ==
    /\ Len(spawned) = 2
    /\ \E i, j \in DOMAIN jobs : jobs[i] = "failed" /\ jobs[j] = "running"

(* C16: with clean-up enabled, a delete of the source that fails (a sibling *)
(* job has removed it) fails neither the job nor the run: every 'end' that  *)
(* tried the delete still ends its job, and when all jobs have ended the    *)
(* master playlist is written and the call resolves.                        *)
CleanupIsBestEffort ==
    inputVideoCleanUp =>
       /\ unlinkCalls = Cardinality({ i \in DOMAIN jobs : jobs[i] = "ended" })
       /\ AllEnded /\ callState # "awaiting" => callState = "resolved" /\ masterWrites = 1

ResolvedAfterFailedDelete ==
    /\ inputVideoCleanUp
    /\ unlinkCalls >= 2
    /\ inputFileName \notin inputFiles
    /\ callState = "resolved"

(* C17: preparing the output directory is idempotent: a call never calls   *)
(* mkdirSync for a directory that exists, so a call that repeats the id of *)
(* an earlier run passes and uses the same run directory output/vid1.      *)
OutputDirIdempotent ==
    /\ [][callState = "start" /\ callState' = "awaiting" =>
             /\ video_id = "vid1" => uniqueOutputPath' = "output/vid1"
             /\ dirs' = dirs \cup { "output", uniqueOutputPath' }
             /\ mkdirCalls' = Cardinality({ "output", uniqueOutputPath' } \ dirs)]_vars
    /\ [][/\ callState = "start"
          /\ inputFileName = "sample.mp4"
          /\ Len(qualityArray) = 0
          /\ resolutionArray \in { <<>>, << Str("360") >> }
          => callState' = "awaiting"]_vars

RepeatedIdMeetsExistingRunDir ==
    /\ callState = "awaiting"
    /\ video_id = "vid1"
    /\ master = StaleMaster
    /\ mkdirCalls = 0
    /\ uniqueOutputPath = "output/vid1"

(* C18: with clean-up enabled the source file is deleted only once the   *)
(* conversion has succeeded: whenever the source is gone, every job has  *)
(* ended.                                                                *)
SourceDeletedOnlyAfterSuccess ==
    inputFileName = "sample.mp4" /\ inputFileName \notin inputFiles => AllEnded

(* C19: once the call has resolved or rejected, the run has no further    *)
(* effect: no progress callback, no file written to the run directory, no *)
(* delete of the source.                                                  *)
NoEffectsAfterSettle ==
    [][Settled =>
          /\ events' = events
          /\ outFiles' = outFiles
          /\ master' = master
          /\ inputFiles' = inputFiles
          /\ unlinkCalls' = unlinkCalls]_vars

(***************************************************************************)
(* The event loop runs a queued continuation: once the join has settled,   *)
(* the code after the await is run.                                        *)
(***************************************************************************)
FairSpec == Spec /\ WF_vars(Resume)

(* C20: once every launched job has emitted 'end' or 'error', the call   *)
(* settles; it settles once, resolved only when all jobs ended, rejected *)
(* after the launch only when a job failed, and it does not resolve      *)
(* while a job has emitted neither event.                                *)
JoinSettlesOnce ==
    /\ (callState # "start" /\ \A i \in DOMAIN jobs : jobs[i] # "running") ~> Settled
    /\ [][Settled => callState' = callState /\ error' = error]_vars
    /\ [](callState = "resolved" => AllEnded)
    /\ [](callState = "rejected" /\ jobs # <<>> => AnyFailed)

SettledWithEveryJobTerminal ==
    /\ Settled
    /\ Len(spawned) = 2
    /\ \A i \in DOMAIN jobs : jobs[i] # "running"
====
